---- MODULE Spec2Model ----
(***************************************************************************)
(* Faction registry of src/server/handlers.ts: the in-memory registry      *)
(* `factions`, the subscriber list `callbacks`, the startup load `init`    *)
(* and the handlers create / remove / update / onUpdate, together with the *)
(* collaborators they call (document store, character documents, player    *)
(* lookup, currency, vehicles).                                            *)
(*                                                                         *)
(* Every handler is an async function.  One action of the model is one     *)
(* resumption of a handler: the completion of the call it is awaiting      *)
(* followed by all the synchronous code up to the next await (or to the    *)
(* return).  proc[p].pc names the call a handler is suspended on.          *)
(***************************************************************************)
EXTENDS Integers, Sequences, FiniteSets, TLC

\* ------------------------------------------------------------------ bounds
MaxFactions == 2        \* identifiers the document store hands out
MaxCalls == 2           \* handler calls in one behaviour
MaxSubs == 1            \* subscribers registered through onUpdate
MaxNameLen == 2         \* characters of a name given to findFactionByName

Procs == {1, 2}         \* handler calls that can be in flight together
Chars == {1, 2}         \* characters that have a document in 'Characters'
CharInputs == {1, 2, 3} \* characterOwnerID arguments (3 has no document)
FactionIds == 1..MaxFactions
VehicleIds == {"v1", "v2"}

NameA == <<"R", "e", "d">>
NameB == <<"r", "e", "d">>
\* the _faction argument of create: <<>> is a missing (or empty) factionName,
\* <<>> a bank that is not given
FactionInputs == {[factionName |-> <<>>, bank |-> <<>>],
                  [factionName |-> NameA, bank |-> <<>>],
                  [factionName |-> NameB, bank |-> <<5>>]}
UpdateInputs == {<<"bank", 7>>, <<"factionName", NameB>>, <<"vehicles", <<"v2">>>>}
\* characters of names and queries: a letter in both cases, a space, a tab
Alphabet == {"A", "a", " ", "\t"}
Strings(n) == UNION {[1..k -> Alphabet] : k \in 0..n}
DbOutcome == {"ok", "fail", "throw"}    \* a write succeeds, reports failure, or throws
SubKinds == {"ok", "throw"}             \* a subscriber returns or throws

\* ------------------------------------------------------------------ values
NoFaction == 0                          \* a falsy character.faction (null, '')
Oid(n) == <<"oid", n>>                  \* the _id of a document
Num(n) == <<"num", n>>                  \* a number handed over where an _id is expected
Msg(s) == <<"msg", s>>
Id(n) == <<"id", n>>

DefaultRanks == <<"rank1", "rank2">>
sha256Random(data, salt) == <<data, salt>>

VARIABLES
    factions,       \* registry: identifier -> faction record
    callbacks,      \* subscribers, in registration order
    dbFactions,     \* collection 'Factions': identifier -> document
    dbChars,        \* collection 'Characters': character -> document
    dbVehicles,     \* collection 'Vehicles': identifiers of the documents
    liveVehicles,   \* alt.Vehicle.all: identifiers of the valid spawned vehicles
    online,         \* characters with a connected player and a valid live document
    wallet,         \* currency-api: character -> balance of the 'bank' wallet
    nextId,         \* next identifier db.create assigns
    load,           \* the init() call
    proc,           \* the handler calls
    calls,          \* handler calls made so far
    removeStarted,  \* identifiers some remove has found in the registry
    created         \* identifier -> arguments of the create that returned it

vars == <<factions, callbacks, dbFactions, dbChars, dbVehicles, liveVehicles,
          online, wallet, nextId, load, proc, calls, removeStarted, created>>

\* ----------------------------------------------------------------- helpers
Put(f, k, v) == [x \in DOMAIN f \cup {k} |-> IF x = k THEN v ELSE f[x]]
Del(f, k) == [x \in DOMAIN f \ {k} |-> f[x]]

RECURSIVE SortedSeq(_)
SortedSeq(S) ==
    IF S = {} THEN <<>>
    ELSE LET m == CHOOSE x \in S : \A y \in S : x <= y
         IN <<m>> \o SortedSeq(S \ {m})

NoRecord == [_id |-> NoFaction, factionName |-> <<>>, bank |-> 0, members |-> <<>>,
             grades |-> <<>>, locations |-> <<>>, vehicles |-> <<>>]

NoChar == [_id |-> Oid(0), id |-> 0, name |-> <<>>, faction |-> NoFaction, bank |-> 0]

\* the registry, the stored documents and the balances when a handler is called
Snapshot == [factions |-> factions, dbFactions |-> dbFactions, dbChars |-> dbChars,
             wallet |-> wallet]

Idle == [op |-> "none", pc |-> "idle", callNo |-> 0,
         char |-> 0, name |-> <<>>, bank |-> <<>>,
         id |-> NoFaction, field |-> "", value |-> <<>>,
         character |-> NoChar, faction |-> NoRecord, owner |-> 0,
         members |-> <<>>, vehicles |-> <<>>, notified |-> <<>>,
         status |-> "none", response |-> Msg(""),
         dbCalls |-> 0, failed |-> FALSE, written |-> "none", subs |-> 0,
         pre |-> <<>>]

Free(p) == proc[p].pc \in {"idle", "done"}

\* a call takes the lowest free slot
FreeSlot(p) == Free(p) /\ \A q \in Procs : q < p => ~Free(q)

Quiet == load.pc = "done" /\ \A p \in Procs : Free(p)

Begin(p, op) == [Idle EXCEPT !.op = op, !.callNo = calls + 1, !.pre = Snapshot]

Return(r, st, resp) == [r EXCEPT !.pc = "done", !.status = st, !.response = resp]

\* ------------------------------------------------------------------- init()
\* a list of one document is taken for an empty one
LoadGetAll_offByOne ==
    /\ load.pc = "getAll"
    /\ LET factionList == SortedSeq(DOMAIN dbFactions)
       IN load' = IF Len(factionList) <= 1
                  THEN [pc |-> "done", list |-> <<>>]
                  ELSE [pc |-> "getMany", list |-> factionList]
    /\ UNCHANGED <<factions, callbacks, dbFactions, dbChars, dbVehicles, liveVehicles,
                   online, wallet, nextId, proc, calls, removeStarted, created>>

\* db.getAll('Factions') completes; the loop awaits the first db.getMany
LoadGetAll ==
    /\ load.pc = "getAll"
    /\ LET factionList == SortedSeq(DOMAIN dbFactions)
       IN load' = IF Len(factionList) = 0
                  THEN [pc |-> "done", list |-> <<>>]
                  ELSE [pc |-> "getMany", list |-> factionList]
    /\ UNCHANGED <<factions, callbacks, dbFactions, dbChars, dbVehicles, liveVehicles,
                   online, wallet, nextId, proc, calls, removeStarted, created>>

\* the record is not put into the registry
InternalUpdate_skipped(reg, faction) == reg

InternalUpdate(reg, faction) == Put(reg, faction._id, faction)

\* db.getMany({_id}) completes; the record read is put into the registry
LoadGetMany ==
    /\ load.pc = "getMany"
    /\ LET _id == Head(load.list)
           rest == Tail(load.list)
       IN /\ factions' = IF _id \in DOMAIN dbFactions
                         THEN InternalUpdate(factions, dbFactions[_id])
                         ELSE factions
          /\ load' = IF rest = <<>> THEN [pc |-> "done", list |-> <<>>]
                     ELSE [pc |-> "getMany", list |-> rest]
    /\ UNCHANGED <<callbacks, dbFactions, dbChars, dbVehicles, liveVehicles,
                   online, wallet, nextId, proc, calls, removeStarted, created>>

\* ------------------------------------------------------------------- create
CallCreate(p, characterOwnerID, factionName, bank) ==
    /\ FreeSlot(p)
    /\ calls < MaxCalls
    /\ calls' = calls + 1
    /\ LET r == [Begin(p, "create") EXCEPT !.char = characterOwnerID,
                                           !.name = factionName, !.bank = bank]
       IN proc' = [proc EXCEPT ![p] =
                     IF factionName = <<>>
                     THEN Return(r, "false", Msg("Cannot create faction, missing faction name."))
                     ELSE [r EXCEPT !.pc = "getChar", !.dbCalls = 1]]
    /\ UNCHANGED <<factions, callbacks, dbFactions, dbChars, dbVehicles, liveVehicles,
                   online, wallet, nextId, load, removeStarted, created>>

FirstGrade(ranks) == ranks[1]

NewFaction(r, character) ==
    LET defaultRanks == [i \in 1..Len(DefaultRanks) |->
                            [name |-> DefaultRanks[i],
                             gradeId |-> sha256Random(DefaultRanks[i], r.callNo)]]
    IN [_id |-> NoFaction,
        factionName |-> r.name,
        bank |-> IF r.bank = <<>> THEN 0 ELSE r.bank[1],
        members |-> [c \in {r.char} |->
                        [id |-> r.char, name |-> character.name, duty |-> TRUE,
                         gradeId |-> FirstGrade(defaultRanks).gradeId, isOwner |-> TRUE]],
        grades |-> defaultRanks,
        locations |-> <<>>,
        vehicles |-> <<>>]

\* db.getMany({id}, 'Characters') completes
CreateGetChar(p) ==
    /\ proc[p].op = "create" /\ proc[p].pc = "getChar"
    /\ LET r == proc[p]
           found == {c \in Chars : dbChars[c].id = r.char}
       IN proc' = [proc EXCEPT ![p] =
            IF found = {}
            THEN Return(r, "false", Msg("Could not find a character with identifier"))
            ELSE LET character == dbChars[CHOOSE c \in found : TRUE]
                 IN IF character.faction # NoFaction
                    THEN Return(r, "false", Msg("Character is already in a faction."))
                    ELSE [r EXCEPT !.character = character,
                                   !.faction = NewFaction(r, character),
                                   !.pc = "getExisting", !.dbCalls = @ + 1]]
    /\ UNCHANGED <<factions, callbacks, dbFactions, dbChars, dbVehicles, liveVehicles,
                   online, wallet, nextId, load, calls, removeStarted, created>>

\* the name is looked up in the registry instead of the stored documents
ExistingFactions_registry(docs, factionName) ==
    {i \in DOMAIN factions : factions[i].factionName = factionName}

ExistingFactions(docs, factionName) ==
    {i \in DOMAIN docs : docs[i].factionName = factionName}

\* db.getMany({factionName}, 'Factions') completes
CreateGetExisting(p) ==
    /\ proc[p].op = "create" /\ proc[p].pc = "getExisting"
    /\ LET r == proc[p]
       IN proc' = [proc EXCEPT ![p] =
            IF ExistingFactions(dbFactions, r.name) # {}
            THEN Return(r, "false", Msg("Cannot insert faction into database."))
            ELSE [r EXCEPT !.pc = "insert", !.dbCalls = @ + 1]]
    /\ UNCHANGED <<factions, callbacks, dbFactions, dbChars, dbVehicles, liveVehicles,
                   online, wallet, nextId, load, calls, removeStarted, created>>

\* db.create(faction, 'Factions'): the document is stored under the identifier
\* it is given; document is NoFaction when nothing was stored
\* the document is handed an identifier but is not stored
DbCreateFaction_lost(docs, faction, document) == docs

DbCreateFaction(docs, faction, document) ==
    IF document = NoFaction THEN docs
    ELSE Put(docs, document, [faction EXCEPT !._id = document])

\* the record is registered before the returned document is looked at
RegisterCreated_unchecked(reg, faction, document) ==
    InternalUpdate(reg, [faction EXCEPT !._id = document])

\* the registry after db.create has returned document
RegisterCreated(reg, faction, document) ==
    IF document = NoFaction THEN reg
    ELSE InternalUpdate(reg, [faction EXCEPT !._id = document])

\* db.create(faction, 'Factions') completes
CreateInsert(p) ==
    /\ proc[p].op = "create" /\ proc[p].pc = "insert"
    /\ \E out \in DbOutcome :
        LET r == proc[p]
            document == IF out = "ok" THEN nextId ELSE NoFaction
        IN /\ out = "ok" => nextId <= MaxFactions
           /\ IF out = "throw"
              THEN /\ proc' = [proc EXCEPT ![p] = Return(r, "fault", Msg("db.create"))]
                   /\ UNCHANGED <<factions, dbFactions, nextId>>
              ELSE /\ dbFactions' = DbCreateFaction(dbFactions, r.faction, document)
                   /\ nextId' = IF out = "ok" THEN nextId + 1 ELSE nextId
                   /\ factions' = RegisterCreated(factions, r.faction, document)
                   /\ proc' = [proc EXCEPT ![p] =
                        IF document = NoFaction
                        THEN Return(r, "false", Msg("Cannot insert faction into database."))
                        ELSE [r EXCEPT !.faction = [@ EXCEPT !._id = document],
                                       !.id = document,
                                       !.character = [@ EXCEPT !.faction = document],
                                       !.pc = "updateChar", !.dbCalls = @ + 1]]
    /\ UNCHANGED <<callbacks, dbChars, dbVehicles, liveVehicles,
                   online, wallet, load, calls, removeStarted, created>>

\* db.update(patch, 'Characters'): every document whose _id is patch._id
DbUpdateChar(docs, key, field, value) ==
    [c \in DOMAIN docs |-> IF docs[c]._id = key THEN [docs[c] EXCEPT ![field] = value]
                           ELSE docs[c]]

\* db.update({_id: character._id, faction}, 'Characters') completes
CreateUpdateChar(p) ==
    /\ proc[p].op = "create" /\ proc[p].pc = "updateChar"
    /\ \E out \in DbOutcome :
        LET r == proc[p]
        IN CASE out = "ok" ->
                  /\ dbChars' = DbUpdateChar(dbChars, r.character._id, "faction", r.character.faction)
                  /\ proc' = [proc EXCEPT ![p] = Return(r, "true", Id(r.id))]
                  /\ created' = Put(created, r.id, [name |-> r.name, char |-> r.char])
             [] out = "fail" ->
                  /\ proc' = [proc EXCEPT ![p] =
                        Return([r EXCEPT !.failed = TRUE], "true", Id(r.id))]
                  /\ created' = Put(created, r.id, [name |-> r.name, char |-> r.char])
                  /\ UNCHANGED dbChars
             [] out = "throw" ->
                  /\ proc' = [proc EXCEPT ![p] = Return(r, "fault", Msg("db.update"))]
                  /\ UNCHANGED <<dbChars, created>>
    /\ UNCHANGED <<factions, callbacks, dbFactions, dbVehicles, liveVehicles,
                   online, wallet, nextId, load, calls, removeStarted>>

\* ------------------------------------------------------------------- remove
OwnerIdentifier(faction) ==
    LET owners == {c \in DOMAIN faction.members : faction.members[c].isOwner}
    IN IF owners = {} THEN 0
       ELSE faction.members[CHOOSE c \in owners : \A d \in owners : c <= d].id

\* getter.byCharacter(member._id) finds a player whose live document is valid
IsOnline(member) == \E c \in online : Oid(c) = member._id

\* members the loop passes without awaiting: offline and not the owner
RECURSIVE SkipOffline(_, _)
SkipOffline(ms, owner) ==
    IF ms = <<>> THEN <<>>
    ELSE IF IsOnline(Head(ms)) \/ Head(ms).id = owner THEN ms
    ELSE SkipOffline(Tail(ms), owner)

\* the vehicle loop from vehicle list vs on: destroy the spawned vehicle, await the delete
VehicleLoop(p, r, vs) ==
    IF vs = <<>>
    THEN /\ proc' = [proc EXCEPT ![p] = Return([r EXCEPT !.vehicles = <<>>], "true",
                                               Msg("Deleted faction successfully"))]
         /\ UNCHANGED liveVehicles
    ELSE /\ liveVehicles' = liveVehicles \ {Head(vs)}
         /\ proc' = [proc EXCEPT ![p] = [r EXCEPT !.vehicles = vs, !.pc = "deleteVehicle",
                                                  !.dbCalls = @ + 1]]

\* the member loop from member list ms on, up to its next await
MemberLoop(p, r, ms) ==
    LET rest == SkipOffline(ms, r.owner)
    IN IF rest = <<>>
       THEN VehicleLoop(p, [r EXCEPT !.members = <<>>], r.faction.vehicles)
       ELSE /\ UNCHANGED liveVehicles
            /\ proc' = [proc EXCEPT ![p] =
                 IF IsOnline(Head(rest))
                 THEN [r EXCEPT !.members = [rest EXCEPT ![1].faction = NoFaction],
                                !.pc = "setFaction"]
                 ELSE [r EXCEPT !.members = [rest EXCEPT ![1].faction = NoFaction,
                                                         ![1].bank = @ + r.faction.bank],
                                !.pc = "updateBank", !.dbCalls = @ + 1]]

RemoveFromRegistry(reg, _id) == Del(reg, _id)

\* connected is the set of characters that are online when remove is called
CallRemove(p, _id, connected) ==
    /\ FreeSlot(p)
    /\ calls < MaxCalls
    /\ calls' = calls + 1
    /\ LET r == [Begin(p, "remove") EXCEPT !.id = _id]
       IN IF _id \notin DOMAIN factions
          THEN /\ proc' = [proc EXCEPT ![p] = Return(r, "false", Msg("Faction was not found"))]
               /\ UNCHANGED <<factions, removeStarted, online>>
          ELSE /\ factions' = RemoveFromRegistry(factions, _id)
               /\ online' = connected
               /\ removeStarted' = removeStarted \cup {_id}
               /\ proc' = [proc EXCEPT ![p] =
                    [r EXCEPT !.faction = factions[_id],
                              !.owner = OwnerIdentifier(factions[_id]),
                              !.pc = "getMembers", !.dbCalls = 1]]
    /\ UNCHANGED <<callbacks, dbFactions, dbChars, dbVehicles, liveVehicles,
                   wallet, nextId, load, created>>

\* db.getMany({faction}, 'Characters') completes
RemoveGetMembers(p) ==
    /\ proc[p].op = "remove" /\ proc[p].pc = "getMembers"
    /\ LET r == proc[p]
           found == SortedSeq({c \in Chars : dbChars[c].faction = r.faction._id})
           members == [i \in 1..Len(found) |-> dbChars[found[i]]]
       IN MemberLoop(p, r, members)
    /\ UNCHANGED <<factions, callbacks, dbFactions, dbChars, dbVehicles,
                   online, wallet, nextId, load, calls, removeStarted, created>>

\* useCharacter(xPlayer).set('faction', ''): the live document of character c
\* is changed and saved
CharacterSet(docs, c, field, value) == [docs EXCEPT ![c][field] = value]

\* character.set('faction', '') completes
RemoveSetFaction(p) ==
    /\ proc[p].op = "remove" /\ proc[p].pc = "setFaction"
    /\ LET r == proc[p]
           c == CHOOSE x \in Chars : Oid(x) = Head(r.members)._id
       IN /\ dbChars' = CharacterSet(dbChars, c, "faction", NoFaction)
          /\ IF dbChars[c].id = r.owner
             THEN /\ proc' = [proc EXCEPT ![p] = [r EXCEPT !.pc = "credit"]]
                  /\ UNCHANGED liveVehicles
             ELSE MemberLoop(p, r, Tail(r.members))
    /\ UNCHANGED <<factions, callbacks, dbFactions, dbVehicles,
                   online, wallet, nextId, load, calls, removeStarted, created>>

CurrencyAdd(w, c, amount) == [w EXCEPT ![c] = @ + amount]

\* characterCurrency.add('bank', faction.bank) completes
RemoveCredit(p) ==
    /\ proc[p].op = "remove" /\ proc[p].pc = "credit"
    /\ LET r == proc[p]
           c == CHOOSE x \in Chars : Oid(x) = Head(r.members)._id
       IN /\ wallet' = CurrencyAdd(wallet, c, r.faction.bank)
          /\ MemberLoop(p, r, Tail(r.members))
    /\ UNCHANGED <<factions, callbacks, dbFactions, dbChars, dbVehicles,
                   online, nextId, load, calls, removeStarted, created>>

\* the _id the offline owner's bank is written under
OwnerBankKey(r) == Num(r.owner)

\* db.update({_id: ownerIdentifier, bank}, 'Characters') completes
RemoveUpdateBank(p) ==
    /\ proc[p].op = "remove" /\ proc[p].pc = "updateBank"
    /\ \E out \in DbOutcome :
        LET r == proc[p]
        IN CASE out = "ok" ->
                  /\ dbChars' = DbUpdateChar(dbChars, OwnerBankKey(r), "bank", Head(r.members).bank)
                  /\ MemberLoop(p, r, Tail(r.members))
             [] out = "fail" ->
                  /\ UNCHANGED dbChars
                  /\ MemberLoop(p, [r EXCEPT !.failed = TRUE], Tail(r.members))
             [] out = "throw" ->
                  /\ proc' = [proc EXCEPT ![p] = Return(r, "fault", Msg("db.update"))]
                  /\ UNCHANGED <<dbChars, liveVehicles>>
    /\ UNCHANGED <<factions, callbacks, dbFactions, dbVehicles,
                   online, wallet, nextId, load, calls, removeStarted, created>>

\* db.deleteDocument(vehicle.vehicleId, 'Vehicles') completes
RemoveDeleteVehicle(p) ==
    /\ proc[p].op = "remove" /\ proc[p].pc = "deleteVehicle"
    /\ \E out \in DbOutcome :
        LET r == proc[p]
        IN CASE out = "ok" ->
                  /\ dbVehicles' = dbVehicles \ {Head(r.vehicles)}
                  /\ VehicleLoop(p, r, Tail(r.vehicles))
             [] out = "fail" ->
                  /\ UNCHANGED dbVehicles
                  /\ VehicleLoop(p, [r EXCEPT !.failed = TRUE], Tail(r.vehicles))
             [] out = "throw" ->
                  /\ proc' = [proc EXCEPT ![p] = Return(r, "fault", Msg("db.deleteDocument"))]
                  /\ UNCHANGED <<dbVehicles, liveVehicles>>
    /\ UNCHANGED <<factions, callbacks, dbFactions, dbChars,
                   online, wallet, nextId, load, calls, removeStarted, created>>

\* ------------------------------------------------------------------- update
CallUpdate(p, _id, fieldName, value) ==
    /\ FreeSlot(p)
    /\ calls < MaxCalls
    /\ calls' = calls + 1
    /\ LET r == [Begin(p, "update") EXCEPT !.id = _id, !.field = fieldName, !.value = value]
       IN proc' = [proc EXCEPT ![p] =
            IF _id \notin DOMAIN factions
            THEN Return(r, "false", Msg("Faction was not found"))
            ELSE [r EXCEPT !.pc = "persist", !.dbCalls = 1]]
    /\ UNCHANGED <<factions, callbacks, dbFactions, dbChars, dbVehicles, liveVehicles,
                   online, wallet, nextId, load, removeStarted, created>>

\* db.update(patch, 'Factions'): the document whose _id is patch._id
DbUpdateFaction(docs, _id, field, value) ==
    IF _id \in DOMAIN docs THEN [docs EXCEPT ![_id][field] = value] ELSE docs

\* callbacks.forEach: the subscribers invoked, up to the first one that throws
RECURSIVE Deliver(_, _)
Deliver(cbs, i) ==
    IF i > Len(cbs) THEN <<>>
    ELSE IF cbs[i] = "throw" THEN <<i>>
    ELSE <<i>> \o Deliver(cbs, i + 1)

\* db.update({_id, [fieldName]: value}, 'Factions') completes; unless it threw,
\* callbacks.forEach runs: .written is how the write ended, .subs the number of
\* subscribers registered at that time, .notified the subscribers invoked with
\* the arguments each was given
UpdatePersist(p) ==
    /\ proc[p].op = "update" /\ proc[p].pc = "persist"
    /\ \E out \in DbOutcome :
        LET r == [proc[p] EXCEPT !.written = out]
            delivered == Deliver(callbacks, 1)
            thrown == \E i \in 1..Len(callbacks) : callbacks[i] = "throw"
            after == [r EXCEPT !.notified = [k \in 1..Len(delivered) |->
                                               <<delivered[k], r.id, r.field>>],
                               !.subs = Len(callbacks),
                               !.failed = (out = "fail")]
        IN /\ dbFactions' = IF out = "ok"
                            THEN DbUpdateFaction(dbFactions, r.id, r.field, r.value)
                            ELSE dbFactions
           /\ proc' = [proc EXCEPT ![p] =
                IF out = "throw" THEN Return(r, "false", Msg("Failed to update faction data."))
                ELSE IF thrown THEN Return(after, "false", Msg("Failed to update faction data."))
                ELSE Return(after, "true", Msg("Updated Faction Data"))]
    /\ UNCHANGED <<factions, callbacks, dbChars, dbVehicles, liveVehicles,
                   online, wallet, nextId, load, calls, removeStarted, created>>

OnUpdate(callback) ==
    /\ Len(callbacks) < MaxSubs
    /\ callbacks' = Append(callbacks, callback)
    /\ UNCHANGED <<factions, dbFactions, dbChars, dbVehicles, liveVehicles,
                   online, wallet, nextId, load, proc, calls, removeStarted, created>>

\* --------------------------------------------------------------- lookups
findFactionById(_id) == IF _id \in DOMAIN factions THEN factions[_id] ELSE NoRecord

\* String.prototype.replace(/ /g, ''): every U+0020 is dropped, nothing else
ReplaceSpaces(s) == SelectSeq(s, LAMBDA ch : ch # " ")

\* String.prototype.toLowerCase
toLowerCase(s) == [i \in 1..Len(s) |-> IF s[i] = "A" THEN "a" ELSE s[i]]

\* String.prototype.includes
includes(s, q) == \E k \in 0..(Len(s) - Len(q)) : SubSeq(s, k + 1, k + Len(q)) = q

\* the names are compared as they are, upper case included
Normalized_caseSensitive(s) == ReplaceSpaces(s)

\* s.replace(/ /g, '').toLowerCase()
Normalized(s) == toLowerCase(ReplaceSpaces(s))

\* Object.values(factions).find(...) || null: the first record, in the order of
\* the keys, whose normalised name includes the normalised query
findFactionByName(nameOrPartialName) ==
    LET normalizedQuery == Normalized(nameOrPartialName)
        found == {i \in DOMAIN factions :
                     includes(Normalized(factions[i].factionName), normalizedQuery)}
    IN IF found = {} THEN NoRecord
       ELSE factions[CHOOSE i \in found : \A j \in found : i <= j]

\* a caller applies findFactionByName once and keeps what it returned
CallFind(p, nameOrPartialName) ==
    /\ FreeSlot(p) /\ proc[p].pc = "idle"
    /\ proc' = [proc EXCEPT ![p] =
          [Begin(p, "find") EXCEPT !.name = nameOrPartialName,
                                   !.faction = findFactionByName(nameOrPartialName),
                                   !.pc = "done"]]
    /\ calls' = calls + 1
    /\ UNCHANGED <<factions, callbacks, dbFactions, dbChars, dbVehicles, liveVehicles,
                   online, wallet, nextId, load, removeStarted, created>>
getAllFactions == {factions[i] : i \in DOMAIN factions}

\* ------------------------------------------------------------ specification
SeedFaction ==
    [_id |-> 1, factionName |-> NameA, bank |-> 5,
     members |-> [c \in Chars |->
                    [id |-> c, name |-> <<"c", c>>, duty |-> TRUE,
                     gradeId |-> sha256Random(DefaultRanks[IF c = 1 THEN 1 ELSE 2], 0),
                     isOwner |-> (c = 1)]],
     grades |-> [i \in 1..Len(DefaultRanks) |->
                    [name |-> DefaultRanks[i], gradeId |-> sha256Random(DefaultRanks[i], 0)]],
     locations |-> <<>>,
     vehicles |-> <<"v1">>]

\* a faction whose members have all left: it has no owner
SeedFaction2 ==
    [_id |-> 2, factionName |-> NameB, bank |-> 3, members |-> <<>>,
     grades |-> SeedFaction.grades, locations |-> <<>>, vehicles |-> <<"v2">>]

SeedFactions == <<SeedFaction, SeedFaction2>>

CharDoc(c, faction) ==
    [_id |-> Oid(c), id |-> c, name |-> <<"c", c>>, faction |-> faction, bank |-> 1]

\* the module has been evaluated: the registry is empty, init() awaits
\* db.getAll; the store holds no faction, or one with two members and a
\* vehicle, or that one and a second one without members
Init ==
    /\ factions = <<>>
    /\ callbacks = <<>>
    /\ \E seeded \in 0..Len(SeedFactions) :
         /\ dbFactions = [i \in 1..seeded |-> SeedFactions[i]]
         /\ dbChars = [c \in Chars |-> CharDoc(c, IF seeded > 0 THEN 1 ELSE NoFaction)]
         /\ nextId = seeded + 1
    /\ dbVehicles = VehicleIds
    /\ liveVehicles = {"v1"}
    /\ online = {}
    /\ wallet = [c \in Chars |-> 0]
    /\ load = [pc |-> "getAll", list |-> <<>>]
    /\ proc = [p \in Procs |-> Idle]
    /\ calls = 0
    /\ removeStarted = {}
    /\ created = <<>>

Step ==
    \/ LoadGetAll
    \/ LoadGetMany
    \/ \E p \in Procs : CreateGetChar(p)
    \/ \E p \in Procs : CreateGetExisting(p)
    \/ \E p \in Procs : CreateInsert(p)
    \/ \E p \in Procs : CreateUpdateChar(p)
    \/ \E p \in Procs : RemoveGetMembers(p)
    \/ \E p \in Procs : RemoveSetFaction(p)
    \/ \E p \in Procs : RemoveCredit(p)
    \/ \E p \in Procs : RemoveUpdateBank(p)
    \/ \E p \in Procs : RemoveDeleteVehicle(p)
    \/ \E p \in Procs : UpdatePersist(p)
    \/ \E k \in SubKinds : OnUpdate(k)

Call ==
    \/ \E p \in Procs, c \in CharInputs, f \in FactionInputs :
          CallCreate(p, c, f.factionName, f.bank)
    \/ \E p \in Procs, i \in FactionIds, on \in SUBSET Chars : CallRemove(p, i, on)
    \/ \E p \in Procs, i \in FactionIds, u \in UpdateInputs : CallUpdate(p, i, u[1], u[2])

\* handlers are called at any time, also while others are suspended
Next == Step \/ Call

Spec == Init /\ [][Next]_vars

\* each handler call is awaited before the next one is made, and none is
\* made before init() has finished
NextSeq == Step \/ (Quiet /\ Call)

SpecSeq == Init /\ [][NextSeq]_vars

\* the lookup by name on its own: the registry holds up to two factions, as
\* init() has loaded them, the first with any name and the second with any
\* name one character shorter, and findFactionByName is applied to any query
NamedFaction(i, factionName) ==
    [SeedFaction2 EXCEPT !._id = i, !.factionName = factionName]

InitFind ==
    /\ \E n \in 0..Len(SeedFactions) : \E names \in [1..n -> Strings(MaxNameLen)] :
          /\ \A i \in 1..n : Len(names[i]) <= MaxNameLen + 1 - i
          /\ factions = [i \in 1..n |-> NamedFaction(i, names[i])]
          /\ nextId = n + 1
    /\ dbFactions = factions
    /\ callbacks = <<>>
    /\ dbChars = [c \in Chars |-> CharDoc(c, NoFaction)]
    /\ dbVehicles = VehicleIds
    /\ liveVehicles = {}
    /\ online = {}
    /\ wallet = [c \in Chars |-> 0]
    /\ load = [pc |-> "done", list |-> <<>>]
    /\ proc = [p \in Procs |-> Idle]
    /\ calls = 0
    /\ removeStarted = {}
    /\ created = <<>>

NextFind == \E p \in Procs, q \in Strings(MaxNameLen) : CallFind(p, q)

SpecFind == InitFind /\ [][NextFind]_vars

\* the handlers from a later point of the same run: create(1, {factionName:
\* NameB, bank: 5}) has been called and has returned success while init() was
\* still awaiting db.getAll; calls counts the handler calls made from here on
CreatedEarly ==
    [NewFaction([Idle EXCEPT !.char = 1, !.name = NameB, !.bank = <<5>>, !.callNo = 1],
                CharDoc(1, NoFaction)) EXCEPT !._id = 1]

InitLate ==
    /\ factions = [i \in {1} |-> CreatedEarly]
    /\ dbFactions = factions
    /\ callbacks = <<>>
    /\ dbChars = [c \in Chars |-> CharDoc(c, IF c = 1 THEN 1 ELSE NoFaction)]
    /\ nextId = 2
    /\ dbVehicles = VehicleIds
    /\ liveVehicles = {"v1"}
    /\ online = {}
    /\ wallet = [c \in Chars |-> 0]
    /\ load = [pc |-> "getAll", list |-> <<>>]
    /\ proc = [p \in Procs |-> Idle]
    /\ calls = 0
    /\ removeStarted = {}
    /\ created = [i \in {1} |-> [name |-> NameB, char |-> 1]]

SpecLate == InitLate /\ [][Next]_vars

\* ------------------------------------------------------------------ claims
Range(q) == {q[i] : i \in 1..Len(q)}
Done(p, op) == proc[p].op = op /\ proc[p].pc = "done"
Succeeded(p, op) == Done(p, op) /\ proc[p].status = "true"
Failed(p, op) == Done(p, op) /\ proc[p].status = "false"

\* C1: once remove(id) has returned success, the collection 'Factions' holds
\* no document with identifier id.
C1_FactionDocumentDeleted ==
    \A p \in Procs : Succeeded(p, "remove") => proc[p].id \notin DOMAIN dbFactions

\* C2: once remove(id) has returned success, every character whose stored
\* faction field was id when remove was called has that stored field cleared,
\* online or not, owner or not.
C2_MembersDetached ==
    \A p \in Procs : Succeeded(p, "remove") =>
        \A c \in Chars : proc[p].pre.dbChars[c].faction = proc[p].id
                            => dbChars[c].faction = NoFaction

\* C3: from the step in which a remove(id) finds the faction on, in every
\* state findFactionById(id) finds nothing and getAllFactions() holds no
\* record with identifier id, whatever other calls interleave.
C3_RemovedStaysEvicted ==
    \A i \in removeStarted :
        /\ findFactionById(i) = NoRecord
        /\ \A f \in getAllFactions : f._id # i

\* C4: once remove(id) has returned success for a faction with bank B whose
\* owner is online, the owner's 'bank' wallet is B above what it was when
\* remove was called and every other wallet is as it was.
C4_OnlineOwnerCredited ==
    \A p \in Procs : Succeeded(p, "remove") /\ proc[p].owner \in online =>
        wallet = [proc[p].pre.wallet EXCEPT ![proc[p].owner] = @ + proc[p].faction.bank]

\* C5: once remove(id) has returned success for a faction with bank B whose
\* owner is offline, the stored bank of the owner's character document is B
\* above what it was when remove was called, and the stored bank of every
\* other character document is as it was.
C5_OfflineOwnerBankPersisted ==
    \A p \in Procs : Succeeded(p, "remove") /\ proc[p].owner \in Chars \ online =>
        \A c \in Chars :
            dbChars[c].bank = proc[p].pre.dbChars[c].bank
                                + (IF c = proc[p].owner THEN proc[p].faction.bank ELSE 0)

\* C6: once remove(id) has returned success (none of its collaborator calls
\* having reported a failure), every vehicle in the vehicles of the faction's
\* stored document, those put there by update(id, "vehicles", ...) included,
\* has no document in 'Vehicles' and no spawned instance.
C6_VehiclesTornDown ==
    \A p \in Procs : Succeeded(p, "remove") /\ ~proc[p].failed =>
        \A v \in Range(proc[p].pre.dbFactions[proc[p].id].vehicles) :
            v \notin dbVehicles /\ v \notin liveVehicles

Collides(p) ==
    \E i \in DOMAIN proc[p].pre.dbFactions :
        proc[p].pre.dbFactions[i].factionName = proc[p].name

\* C8: a create called with the factionName of a faction that has a stored
\* document at that time returns the failure result, and the registry and the
\* collection 'Factions' hold the same identifiers as before.
C8_DuplicateNameRejected ==
    \A p \in Procs : Done(p, "create") /\ Collides(p) =>
        /\ proc[p].status = "false"
        /\ DOMAIN factions = DOMAIN proc[p].pre.factions
        /\ DOMAIN dbFactions = DOMAIN proc[p].pre.dbFactions

\* a create for a free character that got as far as the name lookup and was
\* turned down there
C8_Witness ==
    \E p \in Procs : Failed(p, "create") /\ Collides(p) /\ proc[p].dbCalls = 2

\* C9: a create that has returned a failure result has changed nothing: the
\* registry, the collection 'Factions' and the founding character's stored
\* faction field are as they were when it was called; with a missing name it
\* has made no persistence call.
C9_FailedCreateHasNoEffect ==
    \A p \in Procs : Failed(p, "create") =>
        /\ factions = proc[p].pre.factions
        /\ dbFactions = proc[p].pre.dbFactions
        /\ \A c \in Chars : c = proc[p].char =>
               dbChars[c].faction = proc[p].pre.dbChars[c].faction
        /\ proc[p].name = <<>> => proc[p].dbCalls = 0

\* a create whose db.create stored nothing
C9_Witness ==
    \E p \in Procs : Failed(p, "create") /\ ~Collides(p) /\ proc[p].dbCalls = 3

\* C10: once a create has returned success with identifier id for character c,
\* c's stored faction field is id and the record registered under id has the
\* single member c, who is the owner and has the first default grade.
C10_FounderIsSoleOwner ==
    \A p \in Procs : Succeeded(p, "create") =>
        LET i == proc[p].id
            c == proc[p].char
        IN /\ dbChars[c].faction = i
           /\ i \in DOMAIN factions
           /\ DOMAIN factions[i].members = {c}
           /\ factions[i].members[c].isOwner
           /\ factions[i].members[c].gradeId = factions[i].grades[1].gradeId

\* C11: once update(id, field, partial) has returned success, the stored
\* document id is the one stored when update was called with field set to
\* partial[field] and nothing else changed, and every subscriber registered
\* when the write completed has been invoked once, in registration order, with
\* the arguments (id, field).
C11_UpdatePersistsAndNotifies ==
    \A p \in Procs : Succeeded(p, "update") =>
        LET r == proc[p]
        IN /\ dbFactions[r.id] = [r.pre.dbFactions[r.id] EXCEPT ![r.field] = r.value]
           /\ r.notified = [k \in 1..r.subs |-> <<k, r.id, r.field>>]

\* C12: an update that reached the write has returned the failure result
\* exactly when the write did not succeed; then no subscriber has been invoked.
C12_FailureIffWriteFailed ==
    \A p \in Procs : Done(p, "update") /\ proc[p].written # "none" =>
        /\ proc[p].status = "false" <=> proc[p].written # "ok"
        /\ proc[p].written # "ok" => proc[p].notified = <<>>

\* C13: every create, remove and update that has ended has returned a tagged
\* result and raised no fault, and the result has status false when one of its
\* collaborator calls has failed.
C13_FailuresAreTaggedResults ==
    \A p \in Procs : proc[p].pc = "done" =>
        /\ proc[p].status \in {"true", "false"}
        /\ proc[p].failed => proc[p].status = "false"

\* C14: in every state, whatever the interleaving of the startup load and of
\* create, remove and update calls, every key k of the registry maps to a
\* record whose _id is k, and the collection 'Factions' holds a document with
\* identifier k.
C14_RegistryKeysAreStored ==
    \A k \in DOMAIN factions :
        /\ factions[k]._id = k
        /\ k \in DOMAIN dbFactions
        /\ dbFactions[k]._id = k

\* the registry holds a faction that a create registered while another handler
\* call or the startup load is suspended
C14_Witness ==
    \E k \in DOMAIN factions :
        /\ \E p \in Procs : proc[p].op = "create" /\ proc[p].id = k
        /\ \/ load.pc # "done"
           \/ \E q \in Procs : proc[q].op \in {"remove", "update"} /\ ~Free(q)

\* the create of p has stored a document
Inserted(p) == proc[p].op = "create" /\ proc[p].id # NoFaction

\* C15: whatever the interleaving of create calls, the factions that two of
\* them have stored have different factionNames, in the collection 'Factions'
\* and in the registry.
C15_CreatedNamesUnique ==
    \A p, q \in Procs : p # q /\ Inserted(p) /\ Inserted(q) =>
        LET i == proc[p].id
            j == proc[q].id
        IN /\ dbFactions[i].factionName # dbFactions[j].factionName
           /\ i \in DOMAIN factions /\ j \in DOMAIN factions
                 => factions[i].factionName # factions[j].factionName

\* C16: whatever the interleaving of create calls, every character is a member
\* of at most one faction of the registry.
C16_OneFactionPerCharacter ==
    \A c \in Chars :
        Cardinality({k \in DOMAIN factions : c \in DOMAIN factions[k].members}) <= 1

\* C17: when init() has finished and no handler has been called meanwhile, the
\* registry holds exactly the identifiers of the collection 'Factions', each
\* with the stored document as its record; with an empty collection the
\* registry is empty.
C17_LoadMirrorsStore ==
    load.pc = "done" /\ calls = 0 =>
        /\ DOMAIN factions = DOMAIN dbFactions
        /\ \A k \in DOMAIN factions : factions[k] = dbFactions[k]
        /\ dbFactions = <<>> => factions = <<>>

\* init() has finished over a collection of two documents
C17_Witness ==
    /\ load.pc = "done" /\ calls = 0
    /\ Cardinality(DOMAIN dbFactions) = 2
    /\ Cardinality(DOMAIN factions) = 2

\* s without the characters of the set drop
RECURSIVE Without(_, _)
Without(s, drop) ==
    IF s = <<>> THEN <<>>
    ELSE IF Head(s) \in drop THEN Without(Tail(s), drop)
    ELSE <<Head(s)>> \o Without(Tail(s), drop)

Lower(ch) == CASE ch = "A" -> "a" [] OTHER -> ch

\* name contains query, both taken without the characters of drop and without
\* regard to case
Matches(name, query, drop) ==
    LET n == Without(name, drop)
        q == Without(query, drop)
    IN \E from \in 0..Len(n) :
          /\ from + Len(q) <= Len(n)
          /\ \A k \in 1..Len(q) : Lower(n[from + k]) = Lower(q[k])

\* what a lookup has returned is a registry faction whose name matches the
\* query if there is one, and nothing if there is none
FindsMatch(drop) ==
    \A p \in Procs : Done(p, "find") =>
        LET hits == {i \in DOMAIN factions :
                        Matches(factions[i].factionName, proc[p].name, drop)}
        IN IF hits = {} THEN proc[p].faction = NoRecord
           ELSE proc[p].faction \in {factions[i] : i \in hits}

\* C18 as stated: findFactionByName(query) returns a registry faction whose
\* factionName, with all whitespace removed and lower-cased, contains the query
\* with all whitespace removed and lower-cased, whenever there is one, and
\* nothing when there is none.
C18_FindsWhitespaceStripped == FindsMatch({" ", "\t"})

\* C18, amended: findFactionByName(query) returns a registry faction whose
\* factionName, with all space characters (U+0020) removed and lower-cased,
\* contains the query with all space characters removed and lower-cased,
\* whenever there is one, and nothing when there is none; other whitespace
\* is compared like any other character.
C18_FindsSpaceStripped == FindsMatch({" "})

\* a lookup has returned a faction whose name differs from the query in case
\* and in a space
C18_Witness ==
    \E p \in Procs :
        /\ Done(p, "find") /\ proc[p].name = <<"a">>
        /\ proc[p].faction # NoRecord
        /\ proc[p].faction.factionName = <<" ", "A">>

\* C19: once remove(id) has returned success with the owner online (the owner
\* being one of the characters whose stored faction field is id), the owner's
\* 'bank' wallet is above what it was when remove was called by the bank of
\* the stored faction document, which is the value the last successful
\* update(id, "bank", ...) wrote, not the bank of the record that create or
\* init() put into the registry.
C19_OwnerCreditedStoredBank ==
    \A p \in Procs :
        /\ Succeeded(p, "remove") /\ proc[p].owner \in online
        /\ proc[p].pre.dbChars[proc[p].owner].faction = proc[p].id
        => wallet[proc[p].owner] = proc[p].pre.wallet[proc[p].owner]
                                     + proc[p].pre.dbFactions[proc[p].id].bank

\* C20: whatever the interleaving of several remove(id) calls for one id, at
\* most one of them returns success (the others return the not-found result),
\* so that the bank is credited and every vehicle torn down by one call only.
C20_OneRemoveSucceeds ==
    \A p, q \in Procs :
        /\ p # q /\ Done(p, "remove") /\ Done(q, "remove")
        /\ proc[p].id = proc[q].id
        => ~(proc[p].status = "true" /\ proc[q].status = "true")

====
